---- MODULE Spec2Model ----
(***************************************************************************)
(* Model of src/scraper.js: scrapeWebsites (the batch coordinator, the     *)
(* site orchestrator and the article processor), initDb (the seen-article  *)
(* store) and safeGoto (navigation with retries).                          *)
(*                                                                         *)
(* One run of scrapeWebsites is one behaviour.  Every awaited call that    *)
(* can reject (the store, the browser, a page) is a step with a successful *)
(* and a throwing outcome; where the exception lands follows the try/catch *)
(* blocks of the source.                                                   *)
(***************************************************************************)
EXTENDS Integers, Sequences, FiniteSets, TLC

\* ---------------------------------------------------------------- bounds
MaxSites   == 2   \* descriptors in one request
MaxListing == 2   \* anchors a listing page yields
MaxCount   == 1   \* largest headlineCount of a descriptor
MaxEls     == 1   \* elements the content selector matches on an article page
MaxFaults  == 2   \* awaited calls that reject in one run (retried navigation attempts and
                   \* protocol timeouts of the scroll apart)
MaxAhead   == 2   \* scroll steps of 300 px an article page is ahead of the scroll
MaxGrowth  == 2   \* scroll steps an article page grows by between two timer ticks

\* ------------------------------------------------------- program constants
GotoAttempts  == 3   \* safeGoto: for (let i = 0; i < 3; i++)
RetentionDays == 7   \* initDb: datetime('now', '-7 days')

\* ------------------------------------------------------------ input sets
Urls      == {"u1", "u2"}
Ages      == {6, 7, 8}            \* age in days of a stored row when the run starts
Headings  == {"", "h"}            \* trimmed innerText of the title element ("" also: no element)
ElTexts   == {"", "c"}            \* trimmed innerText of one content element
Separator == "\n\n"

SeqsUpTo(S, n) == UNION {[1..k -> S] : k \in 0..n}

\* A site descriptor: headlineCount (0 stands for absent), whether a webhook
\* and whether contentHtmlTags.newsContent are configured.
Descriptors == [headlineCount : 0..MaxCount, webhook : BOOLEAN, newsContent : BOOLEAN]

\* The rows of table articles: articleUrl is UNIQUE.
Tables == {t \in SUBSET [articleUrl : Urls, age : Ages] :
             \A r1, r2 \in t : r1.articleUrl = r2.articleUrl => r1 = r2}

VARIABLES
  websites,      \* the argument of scrapeWebsites
  hasContexts,   \* whether browser.createBrowserContext exists
  pc,            \* position in scrapeWebsites
  db,            \* rows of table articles
  swept,         \* the rows the DELETE of line 32 removed, until initDb has returned
  browserOpen,   \* the browser launched at line 42 is running
  results,       \* let results = []
  site,          \* index of the current iteration of for (const site of websites)
  siteSession,   \* [context, page] of the site's session: is it open
  gotoTry,       \* i of safeGoto
  ahead,         \* autoScroll: scrollHeight - totalHeight at the last tick, in steps of distance
  listing,       \* the anchors site.urlHtmlTag matches on the current listing page
  headlines,     \* let headlines
  maxNeeded,     \* const maxNeeded
  contentData,   \* let contentData
  h,             \* index of the current iteration of for (const headline of headlines)
  article,       \* const article
  openContexts,  \* article contexts created and not closed
  openPages,     \* article pages created and not closed
  filterSeen,    \* urls the store held when the current site's filter ran
  attempts,      \* the urls of the current site whose processing was started (line 104)
  navigated,     \* the article urls of the current site page.goto was called with
  delays,        \* the number of delay() calls made for the current site
  deliveries,    \* the sites whose webhook was posted to, with the outcome
  faultLog,      \* for each awaited call that rejected, the site it was made for (0: none)
  thrown         \* the error scrapeWebsites threw to its caller, "" if none

vars == <<websites, hasContexts, pc, db, swept, browserOpen, results, site, siteSession,
          gotoTry, ahead, listing, headlines, maxNeeded, contentData, h, article, openContexts,
          openPages, filterSeen, attempts, navigated, delays, deliveries,
          faultLog, thrown>>

\* ------------------------------------------------------------- helpers
CanFail == Len(faultLog) < MaxFaults

Fault(op) == faultLog' = Append(faultLog, site)

\* db.get("SELECT 1 FROM articles WHERE articleUrl = ?")
Exists(table, url) == \E r \in table : r.articleUrl = url

\* InsertOrIgnore as a plain INSERT into a table without the UNIQUE constraint
InsertOrIgnore_Plain(table, url) == table \cup {[articleUrl |-> url, age |-> 0]}

\* INSERT OR IGNORE INTO articles (articleUrl, createdAt) VALUES (?, datetime('now'))
InsertOrIgnore(table, url) ==
  IF Exists(table, url) THEN table ELSE table \cup {[articleUrl |-> url, age |-> 0]}

\* Sweep with the comparison turned round: the old rows are the ones kept
Sweep_Inverted(table) == {r \in table : r.age >= RetentionDays}

\* DELETE FROM articles WHERE createdAt <= datetime('now', '-7 days')
Sweep(table) == {r \in table : ~(r.age >= RetentionDays)}

\* Slice that keeps the whole list
Slice_KeepAll(s, n) == s

\* headlines.slice(0, maxNeeded)
Slice(s, n) == SubSeq(s, 1, IF n < Len(s) THEN n ELSE Len(s))

\* MaxNeeded that ignores site.headlineCount
MaxNeeded_Unbounded(d, found) == Len(found)

\* site.headlineCount && site.headlineCount > 0 ? site.headlineCount : headlines.length
MaxNeeded(d, found) == IF d.headlineCount > 0 THEN d.headlineCount ELSE Len(found)

\* NewCandidates without the lookup: every headline is kept
NewCandidates_NoLookup(found, table) == found

\* the pre-check loop, lines 75-82: keeps the headlines that are not in the table
NewCandidates(found, table) == SelectSeq(found, LAMBDA u : ~Exists(table, u))

\* els.map((e) => e.innerText.trim()).join("\n\n")
RECURSIVE Join(_)
Join(els) ==
  IF els = <<>> THEN ""
  ELSE IF Len(els) = 1 THEN els[1]
  ELSE els[1] \o Separator \o Join(Tail(els))

\* Accepted without the test of the content
Accepted_HeadlineOnly(a) == a.headline # ""

\* if (article.headline && article.content)
Accepted(a) == a.headline # "" /\ a.content # ""

NoArticle == [articleUrl |-> "", headline |-> "", content |-> ""]

\* { ...site, contentData, headlineCount }
SiteResult(i, data) ==
  [site |-> i, desc |-> websites[i], contentData |-> data, headlineCount |-> Len(data)]

\* ErrorResult without the error field
ErrorResult_NoErrorField(i, msg) ==
  [site |-> i, desc |-> websites[i], contentData |-> <<>>, headlineCount |-> 0]

\* { ...site, contentData: [], headlineCount: 0, error: err.message }
ErrorResult(i, msg) ==
  [site |-> i, desc |-> websites[i], contentData |-> <<>>, headlineCount |-> 0,
   error |-> msg]

Closed == [context |-> FALSE, page |-> FALSE]

\* ---------------------------------------------------------------- Init
Init ==
  /\ websites \in SeqsUpTo(Descriptors, MaxSites)
  /\ hasContexts \in BOOLEAN
  /\ db \in Tables
  /\ swept = {}
  /\ pc = "initDb"
  /\ browserOpen = FALSE
  /\ results = <<>>
  /\ site = 0
  /\ siteSession = Closed
  /\ gotoTry = 0
  /\ ahead = 0
  /\ listing = <<>>
  /\ headlines = <<>>
  /\ maxNeeded = 0
  /\ contentData = <<>>
  /\ h = 0
  /\ article = NoArticle
  /\ openContexts = 0
  /\ openPages = 0
  /\ filterSeen = {}
  /\ attempts = <<>>
  /\ navigated = {}
  /\ delays = 0
  /\ deliveries = <<>>
  /\ faultLog = <<>>
  /\ thrown = ""

\* ------------------------------------------------------------ control
\* the error leaves scrapeWebsites: no catch block encloses the call
Throw(op) ==
  /\ CanFail
  /\ Fault(op)
  /\ thrown' = op
  /\ pc' = "thrown"

\* catch (err) of the site's try block, lines 210-212: the error result is pushed
SiteCatch(op) ==
  /\ CanFail
  /\ Fault(op)
  /\ results' = Append(results, ErrorResult(site, op))
  /\ pc' = "catchClose"

\* the head of for (const headline of headlines), lines 100-101
LoopHead(k, data) ==
  IF k > Len(headlines) \/ Len(data) >= maxNeeded THEN "aggregate" ELSE "articleOpen"

\* ArticleCatch that leaves the article loop (the catch block outside the loop)
ArticleCatch_Break(op) ==
  /\ CanFail
  /\ Fault(op)
  /\ h' = h + 1
  /\ article' = NoArticle
  /\ pc' = "aggregate"

\* catch (err) of the article's try block, lines 189-191: the loop goes on
ArticleCatch(op) ==
  /\ CanFail
  /\ Fault(op)
  /\ h' = h + 1
  /\ article' = NoArticle
  /\ pc' = LoopHead(h + 1, contentData)

\* the next iteration of for (const site of websites); the locals of the body end
NextSite ==
  /\ site' = site + 1
  /\ pc' = IF site + 1 <= Len(websites) THEN "siteOpen" ELSE "closeBrowser"
  /\ listing' = <<>>
  /\ headlines' = <<>>
  /\ maxNeeded' = 0
  /\ contentData' = <<>>
  /\ h' = 0
  /\ article' = NoArticle
  /\ filterSeen' = {}
  /\ gotoTry' = 0
  /\ attempts' = <<>>
  /\ navigated' = {}
  /\ delays' = 0

\* ------------------------------------------------------------- actions
\* await initDb(), line 40: open, create table, sweep
InitDb ==
  /\ pc = "initDb"
  /\ \/ /\ db' = Sweep(db)
        /\ swept' = db \ Sweep(db)
        /\ pc' = "launch"
        /\ UNCHANGED <<faultLog, thrown>>
     \/ /\ Throw("store")
        /\ UNCHANGED <<db, swept>>
  /\ UNCHANGED <<ahead, websites, hasContexts, browserOpen, results, site, siteSession,
                 gotoTry, listing, headlines, maxNeeded, contentData, h, article,
                 openContexts, openPages, filterSeen, attempts, navigated, delays,
                 deliveries>>

\* await puppeteer.launch(...), lines 42-48
Launch ==
  /\ pc = "launch"
  /\ swept' = {}
  /\ \/ /\ browserOpen' = TRUE
        /\ site' = 1
        /\ pc' = IF Len(websites) >= 1 THEN "siteOpen" ELSE "closeBrowser"
        /\ UNCHANGED <<faultLog, thrown>>
     \/ /\ Throw("launch")
        /\ UNCHANGED <<browserOpen, site>>
  /\ UNCHANGED <<ahead, websites, hasContexts, db, results, siteSession, gotoTry,
                 listing, headlines, maxNeeded, contentData, h, article, openContexts,
                 openPages, filterSeen, attempts, navigated, delays, deliveries>>

\* lines 51-53, before the try block: the site's context, page and headers
SiteOpen ==
  /\ pc = "siteOpen"
  /\ \/ /\ siteSession' = [context |-> hasContexts, page |-> TRUE]
        /\ gotoTry' = 0
        /\ pc' = "siteGoto"
        /\ UNCHANGED <<faultLog, thrown>>
     \/ /\ hasContexts
        /\ Throw("createBrowserContext")
        /\ UNCHANGED <<siteSession, gotoTry>>
     \/ /\ Throw("newPage")
        /\ siteSession' = [context |-> hasContexts, page |-> FALSE]
        /\ UNCHANGED gotoTry
     \/ /\ Throw("rotateHeaders")
        /\ siteSession' = [context |-> hasContexts, page |-> TRUE]
        /\ UNCHANGED gotoTry
  /\ UNCHANGED <<ahead, swept, websites, hasContexts, db, browserOpen, results, site, listing, headlines,
                 maxNeeded, contentData, h, article, openContexts, openPages,
                 filterSeen, attempts, navigated, delays, deliveries>>

\* safeGoto(page, site.headlineUrl), line 57: one page.goto attempt per step
SiteGoto ==
  /\ pc = "siteGoto"
  /\ \/ /\ pc' = "discover"
        /\ gotoTry' = 0
        /\ UNCHANGED <<results, faultLog>>
     \/ /\ gotoTry < GotoAttempts - 1
        /\ gotoTry' = gotoTry + 1
        /\ UNCHANGED <<pc, results, faultLog>>
     \/ /\ gotoTry = GotoAttempts - 1
        /\ SiteCatch("goto")
        /\ gotoTry' = 0
  /\ UNCHANGED <<ahead, swept, websites, hasContexts, db, browserOpen, site, siteSession,
                 listing, headlines, maxNeeded, contentData, h, article, openContexts,
                 openPages, filterSeen, attempts, navigated, delays, deliveries,
                 thrown>>

\* page.$$eval(site.urlHtmlTag, ...), maxNeeded and the slice, lines 60-72
Discover ==
  /\ pc = "discover"
  /\ \/ \E found \in SeqsUpTo(Urls, MaxListing) :
          /\ listing' = found
          /\ maxNeeded' = MaxNeeded(websites[site], found)
          /\ headlines' = Slice(found, MaxNeeded(websites[site], found))
          /\ pc' = "filter"
          /\ UNCHANGED <<results, faultLog>>
     \/ /\ SiteCatch("$$eval")
        /\ UNCHANGED <<listing, maxNeeded, headlines>>
  /\ UNCHANGED <<ahead, swept, websites, hasContexts, db, browserOpen, site, siteSession,
                 gotoTry, contentData, h, article, openContexts, openPages,
                 filterSeen, attempts, navigated, delays, deliveries, thrown>>

\* the pre-check against the store and the early exit, lines 75-97
Filter ==
  /\ pc = "filter"
  /\ \/ /\ filterSeen' = {r.articleUrl : r \in db}
        /\ LET newCandidates == NewCandidates(headlines, db) IN
             IF newCandidates = <<>>
             THEN /\ results' = Append(results, SiteResult(site, <<>>))
                  /\ pc' = "skipClose"
                  /\ UNCHANGED <<headlines, h>>
             ELSE /\ headlines' = newCandidates
                  /\ h' = 1
                  /\ pc' = IF 0 >= maxNeeded THEN "aggregate" ELSE "articleOpen"
                  /\ UNCHANGED results
        /\ contentData' = <<>>
        /\ UNCHANGED faultLog
     \/ /\ headlines # <<>>
        /\ SiteCatch("store")
        /\ UNCHANGED <<filterSeen, headlines, h, contentData>>
  /\ UNCHANGED <<ahead, swept, websites, hasContexts, db, browserOpen, site, siteSession,
                 gotoTry, listing, maxNeeded, article, openContexts, openPages, attempts,
                 navigated, delays, deliveries, thrown>>

\* if (context !== browser) await context.close(); continue;  lines 91-92
SkipClose ==
  /\ pc = "skipClose"
  /\ \/ /\ siteSession' = IF hasContexts THEN Closed ELSE siteSession
        /\ NextSite
        /\ UNCHANGED <<results, faultLog>>
     \/ /\ hasContexts
        /\ SiteCatch("close")
        /\ UNCHANGED <<site, siteSession, listing, headlines, maxNeeded, contentData, h,
                       article, filterSeen, gotoTry, attempts, navigated, delays>>
  /\ UNCHANGED <<ahead, swept, websites, hasContexts, db, browserOpen, openContexts, openPages,
                 deliveries, thrown>>

\* lines 104-107, the start of the article's try block: its context, page, headers
ArticleOpen ==
  /\ pc = "articleOpen"
  /\ attempts' = Append(attempts, headlines[h])
  /\ \/ /\ openContexts' = openContexts + (IF hasContexts THEN 1 ELSE 0)
        /\ openPages' = openPages + 1
        /\ pc' = "articleGoto"
        /\ UNCHANGED <<h, article, faultLog>>
     \/ /\ hasContexts
        /\ ArticleCatch("createBrowserContext")
        /\ UNCHANGED <<openContexts, openPages>>
     \/ /\ ArticleCatch("newPage")
        /\ openContexts' = openContexts + (IF hasContexts THEN 1 ELSE 0)
        /\ UNCHANGED openPages
     \/ /\ ArticleCatch("rotateHeaders")
        /\ openContexts' = openContexts + (IF hasContexts THEN 1 ELSE 0)
        /\ openPages' = openPages + 1
  /\ UNCHANGED <<ahead, swept, websites, hasContexts, db, browserOpen, results, site, siteSession,
                 gotoTry, listing, headlines, maxNeeded, contentData, filterSeen, navigated,
                 delays, deliveries, thrown>>

\* ArticleGoto whose loop makes one attempt more (i < 4)
ArticleGoto_ExtraAttempt ==
  /\ pc = "articleGoto"
  /\ navigated' = navigated \cup {headlines[h]}
  /\ \/ /\ pc' = "autoScroll"
        /\ gotoTry' = 0
        /\ ahead' \in 0..MaxAhead
        /\ UNCHANGED <<h, article, faultLog>>
     \/ /\ gotoTry < GotoAttempts
        /\ gotoTry' = gotoTry + 1
        /\ UNCHANGED <<pc, h, article, faultLog, ahead>>
     \/ /\ gotoTry = GotoAttempts
        /\ ArticleCatch("goto")
        /\ gotoTry' = 0
        /\ UNCHANGED ahead
  /\ UNCHANGED <<swept, websites, hasContexts, db, browserOpen, results, site, siteSession,
                 listing, headlines, maxNeeded, contentData, openContexts, openPages,
                 filterSeen, attempts, delays, deliveries, thrown>>

\* safeGoto(articlePage, headline.url), line 109: one page.goto attempt per step
ArticleGoto ==
  /\ pc = "articleGoto"
  /\ navigated' = navigated \cup {headlines[h]}
  /\ \/ /\ pc' = "autoScroll"
        /\ gotoTry' = 0
        /\ ahead' \in 0..MaxAhead
        /\ UNCHANGED <<h, article, faultLog>>
     \/ /\ gotoTry < GotoAttempts - 1
        /\ gotoTry' = gotoTry + 1
        /\ UNCHANGED <<pc, h, article, faultLog, ahead>>
     \/ /\ gotoTry = GotoAttempts - 1
        /\ ArticleCatch("goto")
        /\ gotoTry' = 0
        /\ UNCHANGED ahead
  /\ UNCHANGED <<swept, websites, hasContexts, db, browserOpen, results, site, siteSession,
                 listing, headlines, maxNeeded, contentData, openContexts, openPages,
                 filterSeen, attempts, delays, deliveries, thrown>>

\* ScrollTimeout with protocolTimeout switched off: the evaluate call is never cut
ScrollTimeout_Never ==
  /\ pc = "autoScroll"
  /\ FALSE
  /\ UNCHANGED vars

\* protocolTimeout: 120000 (line 44) ends a page.evaluate that has not settled:
\* the call of line 241 rejects and the article's catch block takes over. The
\* clock is not modelled: the timeout may fire at any tick.
ScrollTimeout ==
  /\ pc = "autoScroll"
  /\ Fault("evaluate")
  /\ h' = h + 1
  /\ article' = NoArticle
  /\ pc' = LoopHead(h + 1, contentData)
  /\ ahead' = 0
  /\ UNCHANGED <<swept, websites, hasContexts, db, browserOpen, results, site, siteSession,
                 gotoTry, listing, headlines, maxNeeded, contentData, openContexts,
                 openPages, filterSeen, attempts, navigated, delays, deliveries,
                 thrown>>

\* one run of the setInterval callback, lines 245-253: the page has grown by
\* `grown` steps since the last tick; scrollHeight is read, the window scrolls
\* one step, and the promise resolves if totalHeight >= scrollHeight
ScrollTick ==
  /\ pc = "autoScroll"
  /\ \E grown \in 0..MaxGrowth :
       IF 1 >= ahead + grown
       THEN /\ pc' = "extract"
            /\ ahead' = 0
       ELSE /\ ahead + grown - 1 <= MaxAhead
            /\ ahead' = ahead + grown - 1
            /\ UNCHANGED pc
  /\ UNCHANGED <<swept, websites, hasContexts, db, browserOpen, results, site, siteSession,
                 gotoTry, listing, headlines, maxNeeded, contentData, openContexts,
                 openPages, filterSeen, attempts, navigated, delays, deliveries,
                 thrown, h, article, faultLog>>

\* await autoScroll(articlePage), line 110: the timer ticks until the promise
\* resolves, unless page.evaluate rejects (a failure of the call, or its timeout)
AutoScroll ==
  \/ ScrollTick
  \/ ScrollTimeout
  \/ /\ pc = "autoScroll"
     /\ ArticleCatch("evaluate")
     /\ ahead' = 0
     /\ UNCHANGED <<swept, websites, hasContexts, db, browserOpen, results, site,
                    siteSession, gotoTry, listing, headlines, maxNeeded, contentData,
                    openContexts, openPages, filterSeen, attempts, navigated, delays,
                    deliveries, thrown>>

\* lines 112-173: the fields of the article, its content and the acceptance gate
\* (a field helper that fails yields ""; only the content query can throw)
Extract ==
  /\ pc = "extract"
  /\ \/ \E heading \in Headings, els \in SeqsUpTo(ElTexts, MaxEls) :
          /\ websites[site].newsContent \/ els = <<>>
          /\ LET a == [articleUrl |-> headlines[h],
                       headline |-> heading,
                       content |-> IF websites[site].newsContent THEN Join(els) ELSE ""]
             IN /\ article' = a
                /\ IF Accepted(a)
                   THEN /\ contentData' = Append(contentData, a)
                        /\ pc' = "save"
                   ELSE /\ pc' = "articleClose"
                        /\ UNCHANGED contentData
          /\ UNCHANGED <<h, faultLog>>
     \/ /\ websites[site].newsContent
        /\ ArticleCatch("$$eval")
        /\ UNCHANGED contentData
  /\ UNCHANGED <<ahead, swept, websites, hasContexts, db, browserOpen, results, site, siteSession,
                 gotoTry, listing, headlines, maxNeeded, openContexts, openPages, filterSeen,
                 attempts, navigated, delays, deliveries, thrown>>

\* await db.run("INSERT OR IGNORE ..."), lines 175-180
Save ==
  /\ pc = "save"
  /\ \/ /\ db' = InsertOrIgnore(db, article.articleUrl)
        /\ pc' = "articleClose"
        /\ UNCHANGED <<h, article, faultLog>>
     \/ /\ ArticleCatch("store")
        /\ UNCHANGED db
  /\ UNCHANGED <<ahead, swept, websites, hasContexts, browserOpen, results, site, siteSession,
                 gotoTry, listing, headlines, maxNeeded, contentData, openContexts,
                 openPages, filterSeen, attempts, navigated, delays, deliveries,
                 thrown>>

\* await articlePage.close(); if (articleContext !== browser) await articleContext.close()
\* lines 185-186
ArticleClose ==
  /\ pc = "articleClose"
  /\ \/ /\ openPages' = openPages - 1
        /\ openContexts' = openContexts - (IF hasContexts THEN 1 ELSE 0)
        /\ pc' = "delay"
        /\ UNCHANGED <<h, article, faultLog>>
     \/ /\ ArticleCatch("page.close")
        /\ UNCHANGED <<openPages, openContexts>>
     \/ /\ hasContexts
        /\ ArticleCatch("close")
        /\ openPages' = openPages - 1
        /\ UNCHANGED openContexts
  /\ UNCHANGED <<ahead, swept, websites, hasContexts, db, browserOpen, results, site, siteSession,
                 gotoTry, listing, headlines, maxNeeded, contentData, filterSeen,
                 attempts, navigated, delays, deliveries, thrown>>

\* await delay(5000, 12000), line 188, and the next iteration
Delay ==
  /\ pc = "delay"
  /\ delays' = delays + 1
  /\ h' = h + 1
  /\ article' = NoArticle
  /\ pc' = LoopHead(h + 1, contentData)
  /\ UNCHANGED <<ahead, swept, websites, hasContexts, db, browserOpen, results, site, siteSession,
                 gotoTry, listing, headlines, maxNeeded, contentData, openContexts,
                 openPages, filterSeen, attempts, navigated, deliveries, faultLog,
                 thrown>>

\* Aggregate without the .catch on fetch: the rejection reaches the site's catch
Aggregate_NoCatch ==
  /\ pc = "aggregate"
  /\ IF contentData # <<>> /\ websites[site].webhook
     THEN \/ /\ deliveries' = Append(deliveries, [site |-> site, ok |-> TRUE])
             /\ results' = Append(results, SiteResult(site, contentData))
             /\ pc' = "siteClose"
             /\ UNCHANGED faultLog
          \/ /\ CanFail
             /\ Fault("fetch")
             /\ deliveries' = Append(deliveries, [site |-> site, ok |-> FALSE])
             /\ results' = Append(Append(results, SiteResult(site, contentData)),
                                  ErrorResult(site, "fetch"))
             /\ pc' = "catchClose"
     ELSE /\ results' = Append(results, SiteResult(site, contentData))
          /\ pc' = "siteClose"
          /\ UNCHANGED <<deliveries, faultLog>>
  /\ UNCHANGED <<ahead, swept, websites, hasContexts, db, browserOpen, site, siteSession, gotoTry,
                 listing, headlines, maxNeeded, contentData, h, article, openContexts,
                 openPages, filterSeen, attempts, navigated, delays, thrown>>

\* lines 194-207: the site's result is pushed and, if it holds articles, posted
Aggregate ==
  /\ pc = "aggregate"
  /\ results' = Append(results, SiteResult(site, contentData))
  /\ IF contentData # <<>> /\ websites[site].webhook
     THEN \/ /\ deliveries' = Append(deliveries, [site |-> site, ok |-> TRUE])
             /\ UNCHANGED faultLog
          \/ /\ CanFail
             /\ Fault("fetch")
             /\ deliveries' = Append(deliveries, [site |-> site, ok |-> FALSE])
     ELSE UNCHANGED <<deliveries, faultLog>>
  /\ pc' = "siteClose"
  /\ UNCHANGED <<ahead, swept, websites, hasContexts, db, browserOpen, site, siteSession, gotoTry,
                 listing, headlines, maxNeeded, contentData, h, article, openContexts,
                 openPages, filterSeen, attempts, navigated, delays, thrown>>

\* if (context !== browser) await context.close(), line 209, inside the try block
SiteClose ==
  /\ pc = "siteClose"
  /\ \/ /\ siteSession' = IF hasContexts THEN Closed ELSE siteSession
        /\ NextSite
        /\ UNCHANGED <<results, faultLog>>
     \/ /\ hasContexts
        /\ SiteCatch("close")
        /\ UNCHANGED <<site, siteSession, listing, headlines, maxNeeded, contentData, h,
                       article, filterSeen, gotoTry, attempts, navigated, delays>>
  /\ UNCHANGED <<ahead, swept, websites, hasContexts, db, browserOpen, openContexts, openPages,
                 deliveries, thrown>>

\* if (context !== browser) await context.close(), line 213, inside the catch block
CatchClose ==
  /\ pc = "catchClose"
  /\ \/ /\ siteSession' = IF hasContexts THEN Closed ELSE siteSession
        /\ NextSite
        /\ UNCHANGED <<faultLog, thrown>>
     \/ /\ hasContexts
        /\ Throw("close")
        /\ UNCHANGED <<site, siteSession, listing, headlines, maxNeeded, contentData, h,
                       article, filterSeen, gotoTry, attempts, navigated, delays>>
  /\ UNCHANGED <<ahead, swept, websites, hasContexts, db, browserOpen, results, openContexts,
                 openPages, deliveries>>

\* await browser.close(); return results;  lines 217-218
CloseBrowser ==
  /\ pc = "closeBrowser"
  /\ \/ /\ browserOpen' = FALSE
        /\ siteSession' = Closed
        /\ openContexts' = 0
        /\ openPages' = 0
        /\ pc' = "returned"
        /\ UNCHANGED <<faultLog, thrown>>
     \/ /\ Throw("browser.close")
        /\ UNCHANGED <<browserOpen, siteSession, openContexts, openPages>>
  /\ UNCHANGED <<ahead, swept, websites, hasContexts, db, results, site, gotoTry, listing, headlines,
                 maxNeeded, contentData, h, article, filterSeen, attempts, navigated,
                 delays, deliveries>>

Next ==
  \/ InitDb \/ Launch \/ SiteOpen \/ SiteGoto \/ Discover \/ Filter \/ SkipClose
  \/ ArticleOpen \/ ArticleGoto \/ AutoScroll \/ Extract \/ Save \/ ArticleClose
  \/ Delay \/ Aggregate \/ SiteClose \/ CatchClose \/ CloseBrowser

Spec == Init /\ [][Next]_vars

\* The timer of setInterval keeps firing while the promise is pending, and the
\* protocol timeout of puppeteer fires for an evaluate call that does not settle.
FairSpec == Spec /\ WF_vars(ScrollTick) /\ WF_vars(ScrollTimeout)

\* ====================================================================
\* Properties
\* ====================================================================
Range(s) == {s[k] : k \in DOMAIN s}

HasError(r) == "error" \in DOMAIN r

\* the results pushed for site i
ResultsOf(i) == {k \in DOMAIN results : results[k].site = i}

\* the error messages of a failed listing navigation and a failed headline query
DiscoveryErrors == {"goto", "$$eval"}

\* the step is a rejected call of the discovery of the current site
DiscoveryThrows == pc \in {"siteGoto", "discover"} /\ faultLog' # faultLog

\* the sites for which some awaited call rejected
FaultedSites == Range(faultLog)

\* C1: scrapeWebsites returns exactly one Site Result per input Site Descriptor,
\* in input order (result i carries the fields of descriptor i), whichever
\* operation of a site fails.
C1_OneResultPerDescriptor ==
  pc = "returned" =>
    /\ Len(results) = Len(websites)
    /\ \A i \in DOMAIN results : results[i].site = i /\ results[i].desc = websites[i]

\* C2: per-site isolation.  When the discovery of a site throws (the listing
\* navigation after its last attempt, or the headline query), the result pushed
\* for that site has contentData = [], headlineCount = 0 and a non-empty error,
\* the exception does not leave scrapeWebsites, the loop goes on with the next
\* site once the site's context is closed, and in the returned results every
\* site none of whose own calls rejected has exactly one result, without an
\* error field.
C2_PerSiteIsolation ==
  /\ [][DiscoveryThrows =>
          /\ pc' = "catchClose"
          /\ Len(results') = Len(results) + 1
          /\ SubSeq(results', 1, Len(results)) = results
          /\ LET r == results'[Len(results')] IN
               /\ r.site = site
               /\ r.contentData = <<>>
               /\ r.headlineCount = 0
               /\ HasError(r)
               /\ r.error # ""]_vars
  /\ [][(pc = "catchClose" /\ faultLog' = faultLog) =>
          /\ site' = site + 1
          /\ pc' = IF site < Len(websites) THEN "siteOpen" ELSE "closeBrowser"
          /\ results' = results]_vars
  /\ [](pc = "returned" =>
          \A j \in DOMAIN websites :
            j \notin FaultedSites =>
              /\ Cardinality(ResultsOf(j)) = 1
              /\ \A k \in ResultsOf(j) : ~HasError(results[k]))

\* C2 witness: a run of two sites has returned; the discovery of site 1 threw,
\* site 2 was processed after it and its result holds an article and no error.
C2_Witness ==
  /\ pc = "returned"
  /\ Len(results) = 2
  /\ HasError(results[1]) /\ results[1].error \in DiscoveryErrors
  /\ results[2].site = 2 /\ ~HasError(results[2]) /\ results[2].contentData # <<>>

\* C3: a failure of a rendering operation of a site (creating its context or
\* page, setting its headers, navigating, querying, closing) never propagates
\* to the caller of scrapeWebsites.
C3_SiteFailureNeverPropagates ==
  pc = "thrown" =>
    thrown \notin {"createBrowserContext", "newPage", "rotateHeaders", "goto",
                   "$$eval", "close"}

\* C4: a rejected call of the Seen-Article Store (open or sweep, the lookup of
\* the filter step, the insert on acceptance) aborts the run: the error
\* propagates to the caller of scrapeWebsites.
C4_StoreFailureAbortsRun ==
  [][(pc \in {"initDb", "filter", "save"} /\ faultLog' # faultLog) =>
        (pc' = "thrown" /\ thrown' = "store")]_vars

\* C5: acceptance gate.  Every Article Record in a contentData, that of the
\* site in progress and that of every result, has a non-empty headline and a
\* non-empty content.
C5_AcceptanceGate ==
  /\ \A k \in DOMAIN contentData :
       contentData[k].headline # "" /\ contentData[k].content # ""
  /\ \A i \in DOMAIN results : \A k \in DOMAIN results[i].contentData :
       /\ results[i].contentData[k].headline # ""
       /\ results[i].contentData[k].content # ""

\* C5 witness: the gate has just rejected an article with a headline and no
\* content, after it accepted an earlier one of the same site.
C5_Witness ==
  /\ pc = "articleClose"
  /\ article.headline # "" /\ article.content = ""
  /\ contentData # <<>>
  /\ \A k \in DOMAIN contentData : contentData[k] # article

\* the entries of s whose url the store did not hold when the filter ran
Unseen(s) == SelectSeq(s, LAMBDA u : u \notin filterSeen)

\* the first k entries of s
FirstK(s, k) == [j \in 1..(IF k < Len(s) THEN k ELSE Len(s)) |-> s[j]]

\* the article loop of the current site is over, or was skipped
AttemptsOver == pc \in {"skipClose", "aggregate"}

\* C6: a candidate whose url the store holds when the site's filter step runs
\* is never attempted, never navigated to and never in the site's contentData;
\* when every candidate is already seen, the site's result has contentData = []
\* and headlineCount = 0 and no article is attempted.
C6_SeenCandidatesDropped ==
  /\ \A u \in filterSeen :
       /\ u \notin Range(attempts)
       /\ u \notin navigated
       /\ \A k \in DOMAIN contentData : contentData[k].articleUrl # u
       /\ \A i \in ResultsOf(site) : \A k \in DOMAIN results[i].contentData :
            results[i].contentData[k].articleUrl # u
  /\ (pc \in {"skipClose", "aggregate", "siteClose"}
        /\ \A k \in DOMAIN listing :
             k <= maxNeeded => listing[k] \in filterSeen) =>
       /\ attempts = <<>>
       /\ navigated = {}
       /\ pc = "skipClose"
       /\ results # <<>>
       /\ results[Len(results)].site = site
       /\ results[Len(results)].contentData = <<>>
       /\ results[Len(results)].headlineCount = 0

\* C6 witness: the filter dropped a candidate the store held and the site's
\* other candidate has been navigated to and extracted.
C6_Witness ==
  /\ pc = "articleClose"
  /\ \E k \in DOMAIN listing : k <= maxNeeded /\ listing[k] \in filterSeen
  /\ navigated # {}

\* C7: every article url in the contentData of a returned Site Result is in
\* the Seen-Article Store when the run returns.
C7_AcceptedIsRecorded ==
  pc = "returned" =>
    \A i \in DOMAIN results : \A k \in DOMAIN results[i].contentData :
      Exists(db, results[i].contentData[k].articleUrl)

\* C8 (as claimed): filter first, then take up to the requested count.  For
\* headlineCount = k > 0 and a listing with at least k candidates the store
\* does not hold, k candidates are attempted.
C8_FilterThenTake ==
  (AttemptsOver /\ websites[site].headlineCount > 0
     /\ Len(Unseen(listing)) >= websites[site].headlineCount) =>
    Len(attempts) = websites[site].headlineCount

\* C8 (amended): truncate first, then filter.  For headlineCount = k > 0 the
\* candidates attempted are exactly those of the first k entries of the
\* listing that the store does not hold, in document order.
C8_TruncateThenFilter ==
  (AttemptsOver /\ websites[site].headlineCount > 0) =>
    attempts = Unseen(FirstK(listing, websites[site].headlineCount))

\* C8 witness: the listing holds k unseen candidates, but behind a seen one
\* within the first k entries: fewer than k are attempted.
C8_Witness ==
  /\ AttemptsOver
  /\ websites[site].headlineCount > 0
  /\ Len(Unseen(listing)) >= websites[site].headlineCount
  /\ Len(attempts) < websites[site].headlineCount

\* C9: truncation.  For headlineCount = k > 0 at most k article attempts are
\* made for the site and no contentData of the site holds more than k records.
C9_Truncation ==
  /\ (site \in DOMAIN websites /\ websites[site].headlineCount > 0) =>
       /\ Len(attempts) <= websites[site].headlineCount
       /\ Len(contentData) <= websites[site].headlineCount
  /\ \A i \in DOMAIN results :
       websites[results[i].site].headlineCount > 0 =>
         Len(results[i].contentData) <= websites[results[i].site].headlineCount

\* C9 witness: the listing yields more than k headlines and exactly k were
\* attempted when the article loop ended.
C9_Witness ==
  /\ pc = "aggregate"
  /\ websites[site].headlineCount > 0
  /\ Len(listing) > websites[site].headlineCount
  /\ Len(attempts) = websites[site].headlineCount

\* C10: the isolated session of an article attempt (page and context) is
\* closed when the attempt ends: none is open when the next attempt starts,
\* when the article loop is over or when the run returns.
C10_ArticleSessionClosed ==
  pc \in {"articleOpen", "aggregate", "returned"} =>
    openPages = 0 /\ openContexts = 0

\* the calls of an article attempt that render the article: its session, the
\* navigation, the scroll and the content query
RenderingSteps == {"articleOpen", "articleGoto", "autoScroll", "extract"}

\* the step is a rejected rendering call of the current article attempt (for the
\* navigation: the rejection of its last retry)
ArticleThrows == pc \in RenderingSteps /\ faultLog' # faultLog

\* C11: an exception of one article attempt does not abort its siblings: when
\* a rendering call of the attempt throws, the candidate is skipped (nothing is
\* added to or removed from contentData, no result is pushed, nothing is thrown)
\* and the loop goes on with the next candidate if there is one; when the loop
\* is over every candidate has been attempted, in order, and the result pushed
\* for the site holds the accepted records and no error field.
C11_ArticleFailureIsolated ==
  /\ [][ArticleThrows =>
          /\ contentData' = contentData
          /\ results' = results
          /\ thrown' = thrown
          /\ h' = h + 1
          /\ pc' \in {"articleOpen", "aggregate"}
          /\ (h < Len(headlines) /\ Len(contentData) < maxNeeded
                => pc' = "articleOpen")]_vars
  /\ [](pc = "aggregate" => attempts = headlines)
  /\ [][pc = "aggregate" =>
          /\ Len(results') = Len(results) + 1
          /\ ~HasError(results'[Len(results')])
          /\ results'[Len(results')].site = site
          /\ results'[Len(results')].contentData = contentData]_vars

\* the first of two candidates failed in page creation (no page is left open,
\* no delay was made for it), the second was accepted and is in the result
C11_Witness ==
  /\ pc = "siteClose"
  /\ ~hasContexts
  /\ openPages = 0
  /\ site \in FaultedSites
  /\ \A k \in DOMAIN deliveries : deliveries[k].ok
  /\ Len(attempts) = 2
  /\ attempts[1] # attempts[2]
  /\ delays = 1
  /\ Len(results[Len(results)].contentData) = 1
  /\ results[Len(results)].contentData[1].articleUrl = attempts[2]
  /\ ~HasError(results[Len(results)])

\* C12: within one site the rate-limit wait is applied between every two
\* consecutive article attempts, whatever the outcome of the earlier one: when
\* the navigation of an attempt is about to start, one delay() has been made
\* for each attempt of the site that ended before it.
C12_DelayBetweenAttempts ==
  pc = "articleGoto" => delays >= Len(attempts) - 1

\* a POST to the endpoint of site i was attempted
Delivered(i) == \E k \in DOMAIN deliveries : deliveries[k].site = i

\* some result of site i holds an accepted article
HoldsArticles(i) == \E k \in ResultsOf(i) : results[k].contentData # <<>>

\* site i ended in an error: a result with an error field was pushed for it
EndedInError(i) == \E k \in ResultsOf(i) : HasError(results[k])

\* C13: when the run returns, a delivery was attempted for a site if and only
\* if the site's result holds at least one accepted article and its descriptor
\* configures an endpoint; none was attempted for a site that ended in an error.
C13_DeliveryIffAccepted ==
  pc = "returned" =>
    \A i \in DOMAIN websites :
      /\ Delivered(i) <=> (websites[i].webhook /\ HoldsArticles(i))
      /\ EndedInError(i) => ~Delivered(i)

\* the deliveries whose POST failed
FailedDeliveries == {k \in DOMAIN deliveries : ~deliveries[k].ok}

\* the step is a delivery whose POST fails
DeliveryFails ==
  /\ pc = "aggregate"
  /\ Len(deliveries') = Len(deliveries) + 1
  /\ ~deliveries'[Len(deliveries')].ok

\* C14: a delivery failure never affects the returned batch result: the step
\* in which the POST of a site fails pushes the site's result as it stands
\* (its contentData, headlineCount, no error field), throws nothing, leaves the
\* store alone and goes on as a successful delivery does; a run in which only
\* deliveries failed returns one result without error per descriptor, in order.
C14_DeliveryFailureSwallowed ==
  /\ [][DeliveryFails =>
          /\ results' = Append(results, [site |-> site, desc |-> websites[site],
                                         contentData |-> contentData,
                                         headlineCount |-> Len(contentData)])
          /\ pc' = "siteClose"
          /\ thrown' = thrown
          /\ db' = db
          /\ site' = site]_vars
  /\ [](pc = "returned" /\ Len(faultLog) = Cardinality(FailedDeliveries) =>
          /\ Len(results) = Len(websites)
          /\ \A i \in DOMAIN results : results[i].site = i /\ ~HasError(results[i]))

\* a run of two sites returned; the delivery of the first site failed, nothing
\* else did, and both sites have their result with articles
C14_Witness ==
  /\ pc = "returned"
  /\ FailedDeliveries # {}
  /\ deliveries[1].site = 1 /\ ~deliveries[1].ok
  /\ Len(faultLog) = Cardinality(FailedDeliveries)
  /\ Len(results) = 2
  /\ results[1].contentData # <<>>
  /\ results[2].contentData # <<>>

\* the steps that are one page.goto attempt of a safeGoto call
Navigating == pc \in {"siteGoto", "articleGoto"}

\* where a safeGoto call returns to, and where its error is caught
GotoReturn == IF pc = "siteGoto" THEN "discover" ELSE "autoScroll"
GotoCaught == IF pc = "siteGoto" THEN {"catchClose"} ELSE {"articleOpen", "aggregate"}

\* C15: one logical navigation makes at most 3 attempts (gotoTry counts the
\* failed attempts of the call in progress, so it stays below 3); a step of the
\* navigation is an attempt that succeeds, and then the call returns with no
\* further attempt, or one that fails: it is retried only when fewer than 3
\* attempts were made, and the third failure propagates to the enclosing catch.
C15_NavigationRetries ==
  /\ [](gotoTry \in 0..2)
  /\ [][Navigating =>
          \/ /\ pc' = GotoReturn
             /\ faultLog' = faultLog
             /\ gotoTry' = 0
          \/ /\ pc' = pc
             /\ gotoTry < 2
             /\ gotoTry' = gotoTry + 1
             /\ faultLog' = faultLog
          \/ /\ gotoTry = 2
             /\ faultLog' # faultLog
             /\ pc' \in GotoCaught
             /\ gotoTry' = 0]_vars

\* the listing navigation of a site failed three times: its error is the
\* site's error result
C15_Witness ==
  /\ pc = "catchClose"
  /\ results[Len(results)].error = "goto"
  /\ gotoTry = 0

\* the step is the sweep of initDb
Sweeps == pc = "initDb" /\ pc' = "launch"

\* C16: retention: the sweep at the start of a run leaves no row older than 7
\* days in the store and keeps every row younger than 7 days that was there;
\* from then on no row of the store is older than 7 days.
C16_Retention ==
  /\ [][Sweeps =>
          /\ \A r \in db' : ~(r.age > 7)
          /\ \A r \in db : r.age < 7 => r \in db'
          /\ db' \subseteq db]_vars
  /\ [](pc # "initDb" /\ thrown # "store" => \A r \in db : ~(r.age > 7))

\* the sweep has just removed a row older than 7 days and kept a younger one
C16_Witness ==
  /\ pc = "launch"
  /\ \E r \in swept : r.age > 7
  /\ \E r \in db : r.age < 7 /\ r.age > 0

\* the rows of a table for url u
RowsOf(table, u) == {r \in table : r.articleUrl = u}

\* the step is an INSERT of line 175 that resolved
Records == pc = "save" /\ faultLog' = faultLog

\* C17: dedup idempotence: on every store the run can reach, recording a url
\* once or twice gives the same table, with exactly one row for the url; the
\* INSERT of an accepted article that is already recorded changes nothing and
\* the attempt goes on as after a first recording.
C17_RecordIdempotent ==
  /\ [](\A u \in Urls :
          /\ InsertOrIgnore(InsertOrIgnore(db, u), u) = InsertOrIgnore(db, u)
          /\ Cardinality(RowsOf(InsertOrIgnore(InsertOrIgnore(db, u), u), u)) = 1
          /\ Cardinality(RowsOf(db, u)) <= 1)
  /\ [][Records =>
          /\ Cardinality(RowsOf(db', article.articleUrl)) = 1
          /\ (Exists(db, article.articleUrl) => db' = db)
          /\ db \subseteq db'
          /\ pc' = "articleClose"
          /\ thrown' = thrown]_vars

\* a listing held the same url twice: both attempts were accepted, the first
\* was recorded and its attempt completed, the second has just been recorded
C17_Witness ==
  /\ pc = "articleClose"
  /\ Len(attempts) = 2
  /\ attempts[1] = attempts[2]
  /\ delays = 1
  /\ Len(contentData) = 2
  /\ article.articleUrl = attempts[2]
  /\ Cardinality(RowsOf(db, attempts[2])) = 1

\* no value occurs at two positions of the sequence
NoRepeat(s) == \A a, b \in DOMAIN s : a # b => s[a] # s[b]

\* C18: no article url appears more than once in the contentData of one site
\* result, and no url is attempted more than once for a site: the candidate
\* list of a site is deduplicated.
C18_NoDuplicateUrl ==
  /\ NoRepeat(attempts)
  /\ \A k \in DOMAIN results :
       NoRepeat([j \in DOMAIN results[k].contentData |->
                   results[k].contentData[j].articleUrl])

\* scrapeWebsites has finished: it returned its results or threw to its caller
Finished == pc \in {"returned", "thrown"}

\* C20: whenever scrapeWebsites finishes, by returning or by throwing, the
\* browser it launched for the run has been closed (the run in which
\* browser.close() itself rejects is left aside: the statement is checked for
\* every other way of finishing).
C20_BrowserClosedAtEnd ==
  Finished /\ thrown # "browser.close" => ~browserOpen

\* C19: the scroll-to-bottom step of an article attempt always terminates,
\* however the page's scroll height behaves (also when the page keeps growing
\* as it is scrolled): a scroll that has started is eventually over, and the
\* attempt then goes on to field extraction or has failed into the article's
\* catch block.
C19_ScrollTerminates ==
  /\ [](pc = "autoScroll" => <>(pc # "autoScroll"))
  /\ [][pc = "autoScroll" /\ pc' # "autoScroll" =>
          \/ pc' = "extract" /\ faultLog' = faultLog /\ h' = h
          \/ pc' \in {"articleOpen", "aggregate"} /\ faultLog' # faultLog /\ h' = h + 1]_vars

\* a scroll is in progress on a page that is as far ahead of the scroll as the
\* bound allows, and no further call of the run fails: only the timer reaching
\* the bottom or the protocol timeout can end the step
C19_Witness ==
  /\ pc = "autoScroll"
  /\ ahead = MaxAhead
  /\ ~CanFail

====
